---- MODULE Spec2Model ----
(***************************************************************************)
(* Model of the allocation ledger of cosmic_python/domain.py: the Batch    *)
(* preference comparison, the construction of Batches (group by SKU name,  *)
(* sort each group), and the operations allocate and deallocate.           *)
(***************************************************************************)
EXTENDS Integers, Sequences, FiniteSets, TLC

\* ---------------------------------------------------------------- bounds
MaxBatches     == 2  \* number of Batch values handed to the constructor
MaxSortBatches == 3  \* the same, for a ledger built from batches of one SKU
MaxQty         == 2  \* largest quantity of a supplied batch or order line
MaxEta         == 1  \* number of distinct arrival dates
MaxSortEta     == 3  \* the same, for a ledger built from batches of one SKU
MaxLines       == 2  \* number of lines on an order
NumThreads     == 3  \* number of threads that call allocate concurrently

\* ------------------------------------------------------------ value types
None == 0            \* Batch.eta default: no ETA, the batch is in stock

SkuNames  == {"A", "B"}
OrderRefs == {"o1", "o2"}
Etas      == {None} \cup (1..MaxEta)
SortEtas  == {None} \cup (1..MaxSortEta)

\* Batch(reference, sku, quantity, eta); references are unique (uuid4), here
\* the position of the batch in the list given to the constructor.
Batch(reference, sku, quantity, eta) ==
    [reference |-> reference, sku |-> sku, quantity |-> quantity, eta |-> eta]

OrderLine == [sku : SkuNames, quantity : 1..MaxQty]

LineSeqs == UNION {[1..n -> OrderLine] : n \in 0..MaxLines}

Order == [reference : OrderRefs, lines : LineSeqs]

\* attr.evolve(batch, quantity=q)
evolve(batch, q) == [batch EXCEPT !.quantity = q]

\* variant of Batch.__lt__ that ranks a batch without ETA after every other
Batch_lt_none_last(self, other) ==
    IF other.eta = None THEN TRUE
    ELSE IF self.eta = None THEN FALSE
    ELSE self.eta < other.eta

\* variant of Batch.__lt__ that compares the ETAs the wrong way round
Batch_lt_later_first(self, other) ==
    IF self.eta = None THEN TRUE
    ELSE IF other.eta = None THEN FALSE
    ELSE self.eta > other.eta

\* Batch.__lt__
Batch_lt(self, other) ==
    IF self.eta = None THEN TRUE
    ELSE IF other.eta = None THEN FALSE
    ELSE self.eta < other.eta

\* ------------------------------------------------------------ sorted()
\* sorted(batches) in Batches.__init__, as CPython sorts a list of fewer than
\* 64 elements: the leading run is found by evaluating s[i] < s[i-1] (a run
\* that starts with a descent is taken as long as every element is < its
\* predecessor, and is reversed); the remaining elements are inserted one by
\* one by a binary search that only evaluates pivot < element.  Batch.__lt__
\* is not a strict order on batches without ETA (x < y and y < x both hold),
\* so the result is computed as the algorithm computes it.
RECURSIVE RunEnd(_, _, _)
RunEnd(s, i, descending) ==
    IF i > Len(s) THEN Len(s)
    ELSE IF Batch_lt(s[i], s[i - 1]) = descending
         THEN RunEnd(s, i + 1, descending)
         ELSE i - 1

Reverse(s) == [i \in 1..Len(s) |-> s[Len(s) + 1 - i]]

RECURSIVE BinarySearch(_, _, _, _)
\* position (0-based count of elements kept to the left) for pivot in s[l+1..r]
BinarySearch(s, pivot, l, r) ==
    IF l >= r THEN l
    ELSE LET p == l + ((r - l) \div 2)
         IN  IF Batch_lt(pivot, s[p + 1])
             THEN BinarySearch(s, pivot, l, p)
             ELSE BinarySearch(s, pivot, p + 1, r)

RECURSIVE BinarySort(_, _)
\* s[1..start-1] is sorted; insert s[start], s[start+1], ...
BinarySort(s, start) ==
    IF start > Len(s) THEN s
    ELSE LET pivot == s[start]
             l     == BinarySearch(s, pivot, 0, start - 1)
             t     == [i \in 1..Len(s) |->
                         IF i <= l THEN s[i]
                         ELSE IF i = l + 1 THEN pivot
                         ELSE IF i <= start THEN s[i - 1]
                         ELSE s[i]]
         IN  BinarySort(t, start + 1)

sorted(s) ==
    IF Len(s) < 2 THEN s
    ELSE LET descending == Batch_lt(s[2], s[1])
             n          == RunEnd(s, 3, descending)
             run        == SubSeq(s, 1, n)
             head       == IF descending THEN Reverse(run) ELSE run
         IN  BinarySort(head \o SubSeq(s, n + 1, Len(s)), n + 1)

\* ------------------------------------------------------------ state
VARIABLES
    batches,            \* Batches.batches: SKU name -> list of Batch
    allocated_orders,   \* Batches._allocated_orders: reference -> Order
    call,               \* the latest call: operation and order.reference
    result,             \* how that call ended
    threads             \* per thread: where its allocate call stands

vars == <<batches, allocated_orders, call, result, threads>>

Result(kind, refs, sku, requested, available) ==
    [kind |-> kind, refs |-> refs, sku |-> sku,
     requested |-> requested, available |-> available]

Ok(kind)        == Result(kind, <<>>, "", 0, 0)
Returned(refs)  == Result("list", refs, "", 0, 0)

Threads == 1..NumThreads

\* a thread that is not inside a call: no order, no locals
NoOrder == [reference |-> "", lines |-> <<>>]
Idle ==
    [pc |-> "idle", order |-> NoOrder, line |-> 0, read |-> <<>>,
     updated_batches |-> <<>>, result |-> Ok("None")]

\* ------------------------------------------------------------ construction
BatchTemplates == [sku : SkuNames, quantity : 1..MaxQty, eta : Etas]

\* the lists a caller can hand to Batches(...)
InputLists ==
    UNION {[1..n -> BatchTemplates] : n \in 0..MaxBatches}

MakeBatches(templates) ==
    [i \in 1..Len(templates) |->
        Batch(i, templates[i].sku, templates[i].quantity, templates[i].eta)]

\* Batches.__init__: group by SKU name in list order, sort each group
Batches_init(input) ==
    LET names == {input[i].sku : i \in 1..Len(input)}
    IN  [name \in names |->
            sorted(SelectSeq(input, LAMBDA b : b.sku = name))]

Init ==
    \E templates \in InputLists :
        /\ batches = Batches_init(MakeBatches(templates))
        /\ allocated_orders = <<>>
        /\ call = [op |-> "init", order |-> ""]
        /\ result = Ok("None")
        /\ threads = [t \in Threads |-> Idle]

\* construction from batches that all carry the same SKU
SortInputLists ==
    UNION {[1..n -> [sku : {"A"}, quantity : 1..MaxQty, eta : SortEtas]] :
              n \in 0..MaxSortBatches}

InitSort ==
    \E templates \in SortInputLists :
        /\ batches = Batches_init(MakeBatches(templates))
        /\ allocated_orders = <<>>
        /\ call = [op |-> "init", order |-> ""]
        /\ result = Ok("None")
        /\ threads = [t \in Threads |-> Idle]

\* ------------------------------------------------------------ allocate
RECURSIVE SumQuantity(_)
\* sum(batch.quantity for batch in batches)
SumQuantity(bs) ==
    IF bs = <<>> THEN 0 ELSE Head(bs).quantity + SumQuantity(Tail(bs))

RECURSIVE ensure_stock_le(_, _)
\* variant of _ensure_stock_is_available that compares with <= instead of <
ensure_stock_le(bm, lines) ==
    IF lines = <<>> THEN Ok("None")
    ELSE LET line == Head(lines)
         IN  IF line.sku \notin DOMAIN bm
             THEN Result("DomainError", <<>>, line.sku, 0, 0)
             ELSE LET available_quantity == SumQuantity(bm[line.sku])
                  IN  IF available_quantity <= line.quantity
                      THEN Result("OutOfStockError", <<>>, line.sku,
                                  line.quantity, available_quantity)
                      ELSE ensure_stock_le(bm, Tail(lines))

RECURSIVE ensure_stock_default_empty(_, _)
\* variant of _ensure_stock_is_available that reads a missing SKU as an
\* empty list of batches (self.batches.get(name, []))
ensure_stock_default_empty(bm, lines) ==
    IF lines = <<>> THEN Ok("None")
    ELSE LET line == Head(lines)
             available_quantity ==
                 IF line.sku \in DOMAIN bm THEN SumQuantity(bm[line.sku])
                 ELSE 0
         IN  IF available_quantity < line.quantity
             THEN Result("OutOfStockError", <<>>, line.sku,
                         line.quantity, available_quantity)
             ELSE ensure_stock_default_empty(bm, Tail(lines))

RECURSIVE ensure_stock_sku_only(_, _)
\* variant of _ensure_stock_is_available that only checks that every SKU has
\* batches, without comparing quantities
ensure_stock_sku_only(bm, lines) ==
    IF lines = <<>> THEN Ok("None")
    ELSE LET line == Head(lines)
         IN  IF line.sku \notin DOMAIN bm
             THEN Result("DomainError", <<>>, line.sku, 0, 0)
             ELSE ensure_stock_sku_only(bm, Tail(lines))

RECURSIVE ensure_stock_is_available(_, _)
\* Batches._ensure_stock_is_available: the first failing line raises
ensure_stock_is_available(bm, lines) ==
    IF lines = <<>> THEN Ok("None")
    ELSE LET line == Head(lines)
         IN  IF line.sku \notin DOMAIN bm
             THEN Result("DomainError", <<>>, line.sku, 0, 0)
             ELSE LET available_quantity == SumQuantity(bm[line.sku])
                  IN  IF available_quantity < line.quantity
                      THEN Result("OutOfStockError", <<>>, line.sku,
                                  line.quantity, available_quantity)
                      ELSE ensure_stock_is_available(bm, Tail(lines))

RECURSIVE allocate_loop_no_reset(_, _, _)
\* variant of the loop that never sets quantity_to_allocate to 0
allocate_loop_no_reset(bs, quantity_to_allocate, allocated_quantity) ==
    IF bs = <<>> THEN <<>>
    ELSE LET batch == Head(bs)
         IN  IF quantity_to_allocate = allocated_quantity
             THEN <<batch>> \o
                  allocate_loop_no_reset(Tail(bs), quantity_to_allocate,
                                         allocated_quantity)
             ELSE <<evolve(batch, batch.quantity - quantity_to_allocate)>> \o
                  allocate_loop_no_reset(Tail(bs), quantity_to_allocate,
                                         allocated_quantity)

RECURSIVE allocate_loop_first_fit(_, _, _)
\* variant of the loop that skips a batch holding less than the line asks
allocate_loop_first_fit(bs, quantity_to_allocate, allocated_quantity) ==
    IF bs = <<>> THEN <<>>
    ELSE LET batch == Head(bs)
         IN  IF \/ quantity_to_allocate = allocated_quantity
                \/ batch.quantity < quantity_to_allocate
             THEN <<batch>> \o
                  allocate_loop_first_fit(Tail(bs), quantity_to_allocate,
                                          allocated_quantity)
             ELSE <<evolve(batch, batch.quantity - quantity_to_allocate)>> \o
                  allocate_loop_first_fit(Tail(bs), 0, allocated_quantity)

RECURSIVE allocate_loop_adds(_, _, _)
\* variant of the loop with the sign of the subtraction wrong
allocate_loop_adds(bs, quantity_to_allocate, allocated_quantity) ==
    IF bs = <<>> THEN <<>>
    ELSE LET batch == Head(bs)
         IN  IF quantity_to_allocate = allocated_quantity
             THEN <<batch>> \o
                  allocate_loop_adds(Tail(bs), quantity_to_allocate,
                                     allocated_quantity)
             ELSE <<evolve(batch, batch.quantity + quantity_to_allocate)>> \o
                  allocate_loop_adds(Tail(bs), 0, allocated_quantity)

RECURSIVE allocate_loop(_, _, _)
\* the loop body of Batches._allocate_by_preference over the rest of the
\* batches; returns the batches appended to updated_batches
allocate_loop(bs, quantity_to_allocate, allocated_quantity) ==
    IF bs = <<>> THEN <<>>
    ELSE LET batch == Head(bs)
         IN  IF quantity_to_allocate = allocated_quantity
             THEN <<batch>> \o
                  allocate_loop(Tail(bs), quantity_to_allocate,
                                allocated_quantity)
             ELSE <<evolve(batch, batch.quantity - quantity_to_allocate)>> \o
                  allocate_loop(Tail(bs), 0, allocated_quantity)

\* Batches._allocate_by_preference
allocate_by_preference(bs, line) == allocate_loop(bs, line.quantity, 0)

RECURSIVE allocate_lines_resort(_, _)
\* variant of the for loop that sorts the updated list before storing it
allocate_lines_resort(bm, lines) ==
    IF lines = <<>> THEN bm
    ELSE LET line == Head(lines)
             updated_batches == allocate_by_preference(bm[line.sku], line)
         IN  allocate_lines_resort(
                 [bm EXCEPT ![line.sku] = sorted(updated_batches)],
                 Tail(lines))

RECURSIVE allocate_lines(_, _)
\* the for loop of Batches.allocate: every line replaces its SKU's list
allocate_lines(bm, lines) ==
    IF lines = <<>> THEN bm
    ELSE LET line == Head(lines)
             updated_batches == allocate_by_preference(bm[line.sku], line)
         IN  allocate_lines([bm EXCEPT ![line.sku] = updated_batches],
                            Tail(lines))

\* variant of the return statement that reads the list of the first line
allocate_return_first_line(bm, lines) ==
    IF lines = <<>> THEN Ok("UnboundLocalError")
    ELSE LET updated_batches == bm[lines[1].sku]
         IN  Returned([i \in 1..Len(updated_batches) |->
                          updated_batches[i].reference])

\* the value of the return statement of Batches.allocate: updated_batches is
\* the list left by the last iteration of the loop, unbound without lines
allocate_return(bm, lines) ==
    IF lines = <<>> THEN Ok("UnboundLocalError")
    ELSE LET updated_batches == bm[lines[Len(lines)].sku]
         IN  Returned([i \in 1..Len(updated_batches) |->
                          updated_batches[i].reference])

\* the ledger object: self.batches and self._allocated_orders
Ledger(bm, ao) == [batches |-> bm, allocated_orders |-> ao]

\* how a method call ends: the ledger it leaves and what it returns or raises
Outcome(self, res) == [self |-> self, result |-> res]

\* variant of Batches.allocate without the guard on _allocated_orders
allocate_no_guard(self, order) ==
    LET check == ensure_stock_is_available(self.batches, order.lines)
    IN  IF check.kind # "None"
        THEN Outcome(self, check)
        ELSE LET updated == allocate_lines(self.batches, order.lines)
             IN  Outcome(Ledger(updated,
                                (order.reference :> order) @@
                                    self.allocated_orders),
                         allocate_return(updated, order.lines))

RECURSIVE check_and_allocate(_, _)
\* the lines checked and allocated one after the other
check_and_allocate(bm, lines) ==
    IF lines = <<>> THEN [bm |-> bm, check |-> Ok("None")]
    ELSE LET check == ensure_stock_is_available(bm, <<Head(lines)>>)
         IN  IF check.kind # "None"
             THEN [bm |-> bm, check |-> check]
             ELSE check_and_allocate(allocate_lines(bm, <<Head(lines)>>),
                                     Tail(lines))

\* variant of Batches.allocate that checks each line right before
\* allocating it instead of checking all lines first
allocate_line_by_line(self, order) ==
    IF order.reference \in DOMAIN self.allocated_orders
    THEN Outcome(self, Ok("None"))
    ELSE LET done == check_and_allocate(self.batches, order.lines)
         IN  IF done.check.kind # "None"
             THEN Outcome(Ledger(done.bm, self.allocated_orders), done.check)
             ELSE Outcome(Ledger(done.bm,
                                 (order.reference :> order) @@
                                     self.allocated_orders),
                          allocate_return(done.bm, order.lines))

\* Batches.allocate
allocate(self, order) ==
    IF order.reference \in DOMAIN self.allocated_orders
    THEN Outcome(self, Ok("None"))
    ELSE LET check == ensure_stock_is_available(self.batches, order.lines)
         IN  IF check.kind # "None"
             THEN Outcome(self, check)
             ELSE LET updated == allocate_lines(self.batches, order.lines)
                  IN  Outcome(Ledger(updated,
                                     (order.reference :> order) @@
                                         self.allocated_orders),
                              allocate_return(updated, order.lines))

\* ------------------------------------------------------------ deallocate
\* variant of Batches.deallocate that removes the order from the record
deallocate_forgets(self, order) ==
    IF order.reference \notin DOMAIN self.allocated_orders
    THEN Outcome(self, Result("DomainError", <<>>, order.reference, 0, 0))
    ELSE Outcome(Ledger(self.batches,
                        [ref \in DOMAIN self.allocated_orders
                                 \ {order.reference} |->
                            self.allocated_orders[ref]]),
                 Ok("None"))

\* Batches.deallocate
deallocate(self, order) ==
    IF order.reference \notin DOMAIN self.allocated_orders
    THEN Outcome(self, Result("DomainError", <<>>, order.reference, 0, 0))
    ELSE Outcome(self, Ok("None"))

\* ------------------------------------------------------------ the caller
Self == Ledger(batches, allocated_orders)

\* a caller calls allocate with some order; the ledger is left as the
\* method left it
Allocate ==
    \E order \in Order :
        LET out == allocate(Self, order)
        IN  /\ batches' = out.self.batches
            /\ allocated_orders' = out.self.allocated_orders
            /\ call' = [op |-> "allocate", order |-> order.reference]
            /\ result' = out.result
            /\ UNCHANGED threads

\* a caller calls deallocate with some order. deallocate reads nothing of
\* its order but order.reference: one order per reference stands for all
\* orders carrying it
Deallocate ==
    \E order \in Order :
        /\ order.lines = <<>>
        /\ LET out == deallocate(Self, order)
           IN  /\ batches' = out.self.batches
               /\ allocated_orders' = out.self.allocated_orders
               /\ call' = [op |-> "deallocate", order |-> order.reference]
               /\ result' = out.result
               /\ UNCHANGED threads

Next == Allocate \/ Deallocate

Spec == Init /\ [][Next]_vars

SpecSort == InitSort /\ [][Next]_vars

\* ------------------------------------------------------------ threads
\* Several threads call allocate on one ledger without a lock.  A thread can
\* be suspended between any two statements; a step below is the part of
\* Batches.allocate that reads or writes self.batches or
\* self._allocated_orders once.  The lists are never mutated in place (the
\* loop stores a new list), so a list a thread has read is a snapshot.

\* the orders the threads allocate: one line each
RaceOrders == {order \in Order : Len(order.lines) = 1}

\* the ledger the threads share: batches in stock with full quantity
RaceInputLists ==
    UNION {[1..n -> [sku : SkuNames, quantity : {MaxQty}, eta : {None}]] :
              n \in 0..MaxBatches}

InitRace ==
    \E templates \in RaceInputLists :
        /\ batches = Batches_init(MakeBatches(templates))
        /\ allocated_orders = <<>>
        /\ call = [op |-> "init", order |-> ""]
        /\ result = Ok("None")
        /\ threads = [t \in Threads |-> Idle]

\* thread t enters allocate(order) and evaluates the guard on
\* self._allocated_orders
RaceGuard(t) ==
    /\ threads[t].pc = "idle"
    /\ \E order \in RaceOrders :
          threads' = [threads EXCEPT ![t] =
              IF order.reference \in DOMAIN allocated_orders
              THEN [Idle EXCEPT !.pc = "done", !.order = order]
              ELSE [Idle EXCEPT !.pc = "check", !.order = order]]
    /\ UNCHANGED <<batches, allocated_orders, call, result>>

\* thread t runs self._ensure_stock_is_available(order)
RaceCheck(t) ==
    /\ threads[t].pc = "check"
    /\ LET order == threads[t].order
           check == ensure_stock_is_available(batches, order.lines)
       IN  threads' = [threads EXCEPT ![t] =
               IF check.kind # "None"
               THEN [@ EXCEPT !.pc = "done", !.result = check]
               ELSE IF order.lines = <<>>
                    THEN [@ EXCEPT !.pc = "record"]
                    ELSE [@ EXCEPT !.pc = "read", !.line = 1]]
    /\ UNCHANGED <<batches, allocated_orders, call, result>>

\* thread t reads the list of the line's SKU: batches = self.batches[...]
RaceRead(t) ==
    /\ threads[t].pc = "read"
    /\ LET line == threads[t].order.lines[threads[t].line]
       IN  threads' = [threads EXCEPT ![t] =
               [@ EXCEPT !.pc = "write", !.read = batches[line.sku]]]
    /\ UNCHANGED <<batches, allocated_orders, call, result>>

\* thread t computes the updated list from the list it read and stores it
RaceWrite(t) ==
    /\ threads[t].pc = "write"
    /\ LET order == threads[t].order
           line == order.lines[threads[t].line]
           updated_batches == allocate_by_preference(threads[t].read, line)
       IN  /\ batches' = [batches EXCEPT ![line.sku] = updated_batches]
           /\ threads' = [threads EXCEPT ![t] =
                 [@ EXCEPT !.pc = IF threads[t].line = Len(order.lines)
                                  THEN "record" ELSE "read",
                           !.line = IF threads[t].line = Len(order.lines)
                                    THEN 0 ELSE @ + 1,
                           !.read = <<>>,
                           !.updated_batches = updated_batches]]
    /\ UNCHANGED <<allocated_orders, call, result>>

\* thread t records the order and returns the references of updated_batches
RaceRecord(t) ==
    /\ threads[t].pc = "record"
    /\ LET order == threads[t].order
       IN  /\ allocated_orders' =
                 (order.reference :> order) @@ allocated_orders
           /\ threads' = [threads EXCEPT ![t] =
                 [@ EXCEPT !.pc = "done",
                           !.result =
                               IF order.lines = <<>>
                               THEN Ok("UnboundLocalError")
                               ELSE Returned(
                                      [k \in 1..Len(threads[t]
                                                      .updated_batches) |->
                                          threads[t].updated_batches[k]
                                              .reference])]]
    /\ UNCHANGED <<batches, call, result>>

NextRace ==
    \E t \in Threads :
        \/ RaceGuard(t)
        \/ RaceCheck(t)
        \/ RaceRead(t)
        \/ RaceWrite(t)
        \/ RaceRecord(t)

SpecRace == InitRace /\ [][NextRace]_vars

\* ------------------------------------------------------------ properties
Raised == {"DomainError", "OutOfStockError", "UnboundLocalError"}

\* The properties of one call are stated over every reachable ledger and
\* every order a caller can pass: the outcome of the call on the current
\* ledger is compared with the ledger before it.

NotYetAllocated(order) == order.reference \notin DOMAIN allocated_orders

\* the step is the call allocate(order)
AllocateStep(order) ==
    /\ call'.op = "allocate"
    /\ call'.order = order.reference
    /\ LET out == allocate(Self, order)
       IN  /\ batches' = out.self.batches
           /\ allocated_orders' = out.self.allocated_orders
           /\ result' = out.result

\* the step is the call deallocate(order)
DeallocateStep(order) ==
    /\ call'.op = "deallocate"
    /\ call'.order = order.reference
    /\ LET out == deallocate(Self, order)
       IN  /\ batches' = out.self.batches
           /\ allocated_orders' = out.self.allocated_orders
           /\ result' = out.result

\* the call left the batches and the record as they were
LeavesLedger(out) ==
    /\ out.self.batches = batches
    /\ out.self.allocated_orders = allocated_orders

\* the line names a SKU without batches
UnknownSku(line) == line.sku \notin DOMAIN batches

\* the line asks for more than all batches of its SKU hold together
Exceeds(line) ==
    /\ line.sku \in DOMAIN batches
    /\ line.quantity > SumQuantity(batches[line.sku])

FailsCheck(line) == UnknownSku(line) \/ Exceeds(line)

\* position i is the first line that fails the check
FirstFailing(lines, i) ==
    /\ i \in 1..Len(lines)
    /\ FailsCheck(lines[i])
    /\ \A j \in 1..(i - 1) : ~FailsCheck(lines[j])

\* the error names the line's quantity, its SKU and the SKU's available sum
NamesOutOfStock(res, line) ==
    /\ res.kind = "OutOfStockError"
    /\ res.sku = line.sku
    /\ res.requested = line.quantity
    /\ res.available = SumQuantity(batches[line.sku])

\* C1: allocate(order) with order.reference already in the allocated-orders
\* record returns None without raising and leaves the batches and the
\* record as they were, whatever lines the order carries.
C1_AllocateTwiceIsNoOp ==
    \A order \in Order :
        order.reference \in DOMAIN allocated_orders
        => LET out == allocate(Self, order)
           IN  /\ out.result.kind = "None"
               /\ LeavesLedger(out)

\* a repeated allocate returned None for a recorded order in a ledger where
\* lines exist that name an unknown SKU and lines that exceed the stock left
C1_Witness ==
    /\ call.op = "allocate"
    /\ call.order \in DOMAIN allocated_orders
    /\ result.kind = "None"
    /\ \E sku \in DOMAIN batches : SumQuantity(batches[sku]) = 0
    /\ DOMAIN batches # SkuNames

\* C2 as stated: allocate of a not yet allocated order with some line whose
\* quantity exceeds the sum of the batches of its SKU raises OutOfStockError
\* naming such a line, and changes nothing.
C2_Original ==
    [][\A order \in Order :
          (/\ NotYetAllocated(order)
           /\ \E i \in 1..Len(order.lines) : Exceeds(order.lines[i])
           /\ AllocateStep(order))
          => /\ \E i \in 1..Len(order.lines) :
                   /\ Exceeds(order.lines[i])
                   /\ NamesOutOfStock(result', order.lines[i])
             /\ UNCHANGED <<batches, allocated_orders>>]_vars

\* C2 amended: when the first line of the order that fails the check is a
\* line whose quantity exceeds the sum of the batches of its SKU, allocate
\* raises OutOfStockError naming that line's quantity, its SKU and the sum,
\* and leaves the batches and the record unchanged.
C2_OutOfStock ==
    \A order \in Order : \A i \in 1..Len(order.lines) :
        (/\ NotYetAllocated(order)
         /\ FirstFailing(order.lines, i)
         /\ Exceeds(order.lines[i]))
        => LET out == allocate(Self, order)
           IN  /\ NamesOutOfStock(out.result, order.lines[i])
               /\ LeavesLedger(out)

\* allocate raised OutOfStockError for 2 requested of a SKU whose batches
\* hold 1 together
C2_Witness ==
    /\ call.op = "allocate"
    /\ call.order \notin DOMAIN allocated_orders
    /\ result.kind = "OutOfStockError"
    /\ result.requested = 2
    /\ result.available = 1
    /\ SumQuantity(batches[result.sku]) = 1

\* C3 as stated: allocate of a not yet allocated order with some line whose
\* SKU has no batches raises the generic DomainError naming such a SKU, and
\* changes nothing.
C3_Original ==
    [][\A order \in Order :
          (/\ NotYetAllocated(order)
           /\ \E i \in 1..Len(order.lines) : UnknownSku(order.lines[i])
           /\ AllocateStep(order))
          => /\ result'.kind = "DomainError"
             /\ \E i \in 1..Len(order.lines) :
                   /\ UnknownSku(order.lines[i])
                   /\ result'.sku = order.lines[i].sku
             /\ UNCHANGED <<batches, allocated_orders>>]_vars

\* C3 amended: when the first line of the order that fails the check is a
\* line whose SKU has no batches, allocate raises the generic DomainError
\* naming that SKU, and leaves the batches and the record unchanged.
C3_UnknownSku ==
    \A order \in Order : \A i \in 1..Len(order.lines) :
        (/\ NotYetAllocated(order)
         /\ FirstFailing(order.lines, i)
         /\ UnknownSku(order.lines[i]))
        => LET out == allocate(Self, order)
           IN  /\ out.result.kind = "DomainError"
               /\ out.result.sku = order.lines[i].sku
               /\ LeavesLedger(out)

\* allocate raised DomainError for a SKU without batches, in a ledger that
\* has batches of another SKU
C3_Witness ==
    /\ call.op = "allocate"
    /\ call.order \notin DOMAIN allocated_orders
    /\ result.kind = "DomainError"
    /\ result.sku \in SkuNames \ DOMAIN batches
    /\ DOMAIN batches # {}

\* C4: when any line of a not yet allocated order fails the check (unknown
\* SKU or more than the SKU's total), at whatever position, allocate raises,
\* changes no batch of any SKU and does not record the order.
C4_AllOrNothing ==
    \A order \in Order :
        (/\ NotYetAllocated(order)
         /\ \E i \in 1..Len(order.lines) : FailsCheck(order.lines[i]))
        => LET out == allocate(Self, order)
           IN  /\ out.result.kind \in {"DomainError", "OutOfStockError"}
               /\ LeavesLedger(out)
               /\ order.reference \notin DOMAIN out.self.allocated_orders

\* a failed allocate in a ledger where another SKU has stock that a line
\* before the failing one can ask for
C4_Witness ==
    /\ call.op = "allocate"
    /\ call.order \notin DOMAIN allocated_orders
    /\ result.kind \in {"DomainError", "OutOfStockError"}
    /\ \E sku \in DOMAIN batches :
          /\ sku # result.sku
          /\ SumQuantity(batches[sku]) >= 1

\* the positions of the lines of the order that carry the SKU
LinesOf(order, sku) ==
    {i \in 1..Len(order.lines) : order.lines[i].sku = sku}

\* the list with the quantity of its first batch reduced by q
FirstReduced(bs, q) == [bs EXCEPT ![1] = evolve(@, @.quantity - q)]

\* one batch without ETA and one with an ETA
MixedPair(bs) ==
    /\ Len(bs) = 2
    /\ \E i, j \in 1..2 : bs[i].eta = None /\ bs[j].eta # None

\* the only call that went through is the latest, allocate of a single line
SingleLineAllocated(sku) ==
    /\ call.op = "allocate"
    /\ result.kind = "list"
    /\ DOMAIN allocated_orders = {call.order}
    /\ Len(allocated_orders[call.order].lines) = 1
    /\ allocated_orders[call.order].lines[1].sku = sku

\* C5: in a ledger built from two batches of one SKU, one without ETA and
\* one with an ETA, supplied in either order, the batch without ETA is first
\* in the SKU's list, and a successful allocate of a line that fits in either
\* batch reduces the batch without ETA by the line's quantity and leaves the
\* batch with the ETA unchanged.
C5_PrefersInStock ==
    \A sku \in DOMAIN batches :
        MixedPair(batches[sku])
        => /\ batches[sku][1].eta = None
           /\ batches[sku][2].eta # None
           /\ \A order \in Order : \A i \in 1..Len(order.lines) :
                 (/\ NotYetAllocated(order)
                  /\ LinesOf(order, sku) = {i}
                  /\ order.lines[i].quantity <= batches[sku][1].quantity
                  /\ order.lines[i].quantity <= batches[sku][2].quantity
                  /\ allocate(Self, order).result.kind = "list")
                 => LET after == allocate(Self, order).self.batches[sku]
                        q     == order.lines[i].quantity
                    IN  /\ Len(after) = 2
                        /\ after[1] = evolve(batches[sku][1],
                                             batches[sku][1].quantity - q)
                        /\ after[1].eta = None
                        /\ after[2] = batches[sku][2]

\* the batch without ETA was supplied after the one with an ETA, is first in
\* the list, and a line that fitted in either batch was allocated
C5_Witness ==
    /\ "A" \in DOMAIN batches
    /\ MixedPair(batches["A"])
    /\ batches["A"][1].reference = 2
    /\ SingleLineAllocated("A")
    /\ batches["A"][1].quantity >= 0
    /\ batches["A"][1].quantity < MaxQty
    /\ allocated_orders[call.order].lines[1].quantity
          <= batches["A"][2].quantity

\* every batch has an ETA and no two have the same
DistinctEtas(bs) ==
    /\ \A i \in 1..Len(bs) : bs[i].eta # None
    /\ \A i, j \in 1..Len(bs) : i # j => bs[i].eta # bs[j].eta

\* C6: in a ledger built from batches of one SKU that all have distinct
\* ETAs, supplied in any order, the SKU's list is in ascending ETA order, and
\* a successful allocate of a line reduces only the batch with the earliest
\* ETA, leaving the later batches unchanged.
C6_PrefersEarliest ==
    \A sku \in DOMAIN batches :
        DistinctEtas(batches[sku])
        => /\ \A i, j \in 1..Len(batches[sku]) :
                 i < j => batches[sku][i].eta < batches[sku][j].eta
           /\ \A order \in Order : \A i \in 1..Len(order.lines) :
                 (/\ NotYetAllocated(order)
                  /\ LinesOf(order, sku) = {i}
                  /\ allocate(Self, order).result.kind = "list")
                 => LET after == allocate(Self, order).self.batches[sku]
                        q     == order.lines[i].quantity
                    IN  /\ after = FirstReduced(batches[sku], q)
                        /\ \A j \in 1..Len(after) :
                              after[1].eta <= after[j].eta

\* three batches with distinct ETAs, the earliest supplied last, and a line
\* was allocated
C6_Witness ==
    /\ "A" \in DOMAIN batches
    /\ Len(batches["A"]) = 3
    /\ DistinctEtas(batches["A"])
    /\ batches["A"][1].reference = 3
    /\ batches["A"][2].reference = 1
    /\ SingleLineAllocated("A")
    /\ batches["A"][1].quantity < MaxQty

\* no two lines carry the same SKU
DistinctSkus(lines) ==
    \A i, j \in 1..Len(lines) : i # j => lines[i].sku # lines[j].sku

\* C7: a successful allocate of a not yet allocated order whose lines have
\* pairwise distinct SKUs reduces, for each line, the first batch of the
\* line's SKU by the line's quantity and leaves every other batch of that
\* SKU and every batch of the SKUs the order does not name unchanged.
C7_FirstBatchOnly ==
    \A order \in Order :
        (/\ NotYetAllocated(order)
         /\ DistinctSkus(order.lines)
         /\ allocate(Self, order).result.kind = "list")
        => LET after == allocate(Self, order).self.batches
           IN  /\ DOMAIN after = DOMAIN batches
               /\ \A sku \in DOMAIN batches :
                     /\ LinesOf(order, sku) = {}
                        => after[sku] = batches[sku]
                     /\ \A i \in LinesOf(order, sku) :
                           after[sku] =
                              FirstReduced(batches[sku],
                                           order.lines[i].quantity)

\* an order with two lines of different SKUs was allocated
C7_Witness ==
    /\ call.op = "allocate"
    /\ result.kind = "list"
    /\ Len(allocated_orders[call.order].lines) = 2
    /\ DistinctSkus(allocated_orders[call.order].lines)

\* the call reduced the quantity of the batch with this reference
ReducedByStep(reference) ==
    \E sku \in DOMAIN batches : \E k \in 1..Len(batches[sku]) :
        /\ batches[sku][k].reference = reference
        /\ batches'[sku][k].quantity < batches[sku][k].quantity

\* C8: a successful allocate of a not yet allocated order returns a list
\* that holds only references of batches whose quantity the call reduced;
\* for an order of one line it is the list of the one reference of the batch
\* the line was allocated to, however many batches the SKU has.
C8_Original ==
    [][\A order \in Order :
          (/\ NotYetAllocated(order)
           /\ result'.kind = "list"
           /\ AllocateStep(order))
          => /\ \A k \in 1..Len(result'.refs) :
                   ReducedByStep(result'.refs[k])
             /\ Len(order.lines) = 1
                => /\ Len(result'.refs) = 1
                   /\ ReducedByStep(result'.refs[1])]_vars

\* C9: deallocate(order) raises DomainError exactly when order.reference is
\* not in the allocated-orders record: it raises right after an allocate of
\* the order that raised, and returns right after one that returned its list.
C9_Original ==
    [][\A order \in Order :
          DeallocateStep(order)
          => /\ (result'.kind = "DomainError") <=> NotYetAllocated(order)
             /\ result'.kind \in {"DomainError", "None"}
             /\ (/\ call.op = "allocate"
                 /\ call.order = order.reference
                 /\ result.kind \in Raised)
                => result'.kind = "DomainError"
             /\ (/\ call.op = "allocate"
                 /\ call.order = order.reference
                 /\ result.kind = "list")
                => result'.kind = "None"]_vars

RECURSIVE Asked(_, _)
\* what the lines ask of the SKU, all lines that carry it counted together
Asked(lines, sku) ==
    IF lines = <<>> THEN 0
    ELSE (IF Head(lines).sku = sku THEN Head(lines).quantity ELSE 0)
         + Asked(Tail(lines), sku)

\* C10: allocate of a not yet allocated order raises OutOfStockError and
\* changes nothing whenever the lines of the order, counted together per
\* SKU, ask for more of some SKU than its batches hold together; stated for
\* the orders all of whose SKUs have batches.
C10_Original ==
    [][\A order \in Order :
          (/\ NotYetAllocated(order)
           /\ \A i \in 1..Len(order.lines) : ~UnknownSku(order.lines[i])
           /\ \E sku \in DOMAIN batches :
                 Asked(order.lines, sku) > SumQuantity(batches[sku])
           /\ AllocateStep(order))
          => /\ result'.kind = "OutOfStockError"
             /\ UNCHANGED <<batches, allocated_orders>>]_vars

\* C11: every allocate of a not yet allocated order that ends by raising an
\* error, the order without lines included, leaves the batch sequences and
\* the allocated-orders record as they were, so that the order is still not
\* recorded and deallocate of it still raises.
C11_Original ==
    [][\A order \in Order :
          (/\ NotYetAllocated(order)
           /\ result'.kind \in Raised
           /\ AllocateStep(order))
          => /\ UNCHANGED <<batches, allocated_orders>>
             /\ deallocate(Ledger(batches', allocated_orders'),
                           order).result.kind = "DomainError"]_vars

\* C12: allocate takes the whole quantity of a line from the first batch of
\* the SKU's list without checking that batch alone: when every line passes
\* the check on the SKU's sum and the first batch of a line's SKU holds less
\* than the line asks (0 included), the call succeeds, the first batch is
\* left with a negative quantity, what the order asks of the SKU is taken
\* from it alone, and every later batch of the SKU is left as it was.
C12_FirstBatchGoesNegative ==
    \A order \in Order : \A i \in 1..Len(order.lines) :
        LET line == order.lines[i]
            out == allocate(Self, order)
        IN  (/\ NotYetAllocated(order)
             /\ \A j \in 1..Len(order.lines) : ~FailsCheck(order.lines[j])
             /\ batches[line.sku][1].quantity < line.quantity)
            => LET before == batches[line.sku]
                   after == out.self.batches[line.sku]
               IN  /\ out.result.kind = "list"
                   /\ Len(after) = Len(before)
                   /\ after[1].quantity < 0
                   /\ after[1].quantity =
                         before[1].quantity - Asked(order.lines, line.sku)
                   /\ \A k \in 2..Len(before) : after[k] = before[k]

\* two orders of one line each were allocated to a SKU of two batches: the
\* earlier one drained the first batch to 0, the later one left it at -1
\* while the second batch still holds stock
C12_Witness ==
    /\ call.op = "allocate"
    /\ result.kind = "list"
    /\ DOMAIN allocated_orders = OrderRefs
    /\ \E sku \in DOMAIN batches :
          /\ \A ref \in OrderRefs :
                allocated_orders[ref].lines =
                   <<[sku |-> sku, quantity |-> 1]>>
          /\ Len(batches[sku]) = 2
          /\ batches[sku][1].quantity = -1
          /\ batches[sku][2].quantity >= 1

\* allocate called as the code assumes it is called (the comments at the
\* loops of allocate and _ensure_stock_is_available): every line of the order
\* has a different SKU
AllocateDistinct ==
    \E order \in Order :
        /\ DistinctSkus(order.lines)
        /\ LET out == allocate(Self, order)
           IN  /\ batches' = out.self.batches
               /\ allocated_orders' = out.self.allocated_orders
               /\ call' = [op |-> "allocate", order |-> order.reference]
               /\ result' = out.result
               /\ UNCHANGED threads

NextDistinct == AllocateDistinct \/ Deallocate

\* the ledger used only with orders whose lines have pairwise distinct SKUs
SpecDistinct == Init /\ [][NextDistinct]_vars

\* C13: in every state reached from a ledger built from batches of
\* non-negative quantity by allocate and deallocate calls whose orders have
\* lines of pairwise distinct SKUs and positive quantities, the batch
\* quantities of each SKU sum to a non-negative number.
C13_SumNonNegative ==
    \A sku \in DOMAIN batches : SumQuantity(batches[sku]) >= 0

\* allocations took all the stock of a SKU of two batches: its first batch
\* is negative and the sum is 0
C13_Witness ==
    /\ call.op = "allocate"
    /\ result.kind = "list"
    /\ \E sku \in DOMAIN batches :
          /\ Len(batches[sku]) = 2
          /\ batches[sku][1].quantity < 0
          /\ SumQuantity(batches[sku]) = 0

\* the references of the batches of the list, in list order
References(bs) == [k \in 1..Len(bs) |-> bs[k].reference]

\* C14: a successful allocate of a not yet allocated order of two or more
\* lines with pairwise distinct SKUs returns the references of the batch list
\* of the last line's SKU, all of them and in list order, and no reference of
\* a batch of the SKU of an earlier line.
C14_ReturnsLastLineOnly ==
    \A order \in Order :
        LET out == allocate(Self, order)
            n == Len(order.lines)
        IN  (/\ NotYetAllocated(order)
             /\ n >= 2
             /\ DistinctSkus(order.lines)
             /\ out.result.kind = "list")
            => /\ out.result.refs =
                     References(out.self.batches[order.lines[n].sku])
               /\ \A i \in 1..(n - 1) :
                     \A k \in 1..Len(batches[order.lines[i].sku]) :
                        \A r \in 1..Len(out.result.refs) :
                           out.result.refs[r] #
                              batches[order.lines[i].sku][k].reference

\* an order of two lines, the first for A and the last for B, was allocated
\* and the call returned the references of the batches of B
C14_Witness ==
    /\ call.op = "allocate"
    /\ result.kind = "list"
    /\ allocated_orders[call.order].lines[1].sku = "A"
    /\ Len(allocated_orders[call.order].lines) = 2
    /\ allocated_orders[call.order].lines[2].sku = "B"
    /\ batches["A"][1].quantity < MaxQty
    /\ result.refs = References(batches["B"])

\* C15: deallocate, whether it raises DomainError or returns, leaves every
\* batch list and the allocated-orders record as they were: no quantity is
\* restored and no order is removed from the record.
C15_DeallocateChangesNothing ==
    \A order \in Order :
        LET out == deallocate(Self, order)
        IN  /\ LeavesLedger(out)
            /\ out.result.kind \in {"DomainError", "None"}
            /\ (out.result.kind = "DomainError") <=> NotYetAllocated(order)

\* deallocate of a recorded order returned; the order is still recorded and
\* a batch it drew from is still below the smallest quantity a ledger is
\* built with
C15_Witness ==
    /\ call.op = "deallocate"
    /\ result.kind = "None"
    /\ call.order \in DOMAIN allocated_orders
    /\ allocated_orders[call.order].lines # <<>>
    /\ \E sku \in DOMAIN batches : batches[sku][1].quantity < 1

\* C16: an order reference enters the allocated-orders record only through
\* a successful allocate of it, a recorded reference stays recorded through
\* every later allocate and deallocate, and an allocate with a recorded
\* reference changes no batch.
C16_Original ==
    [][/\ DOMAIN allocated_orders \subseteq DOMAIN allocated_orders'
       /\ \A ref \in DOMAIN allocated_orders' \ DOMAIN allocated_orders :
             /\ call'.op = "allocate"
             /\ call'.order = ref
             /\ result'.kind = "list"
       /\ (call'.op = "allocate" /\ call'.order \in DOMAIN allocated_orders)
          => batches' = batches]_vars

\* the ledger's batches without their quantities: per SKU, the reference,
\* SKU and ETA of the batch at each position
Shape(bm) ==
    [sku \in DOMAIN bm |->
        [k \in 1..Len(bm[sku]) |->
            <<bm[sku][k].reference, bm[sku][k].sku, bm[sku][k].eta>>]]

\* C17: no allocate or deallocate call changes which SKUs have a list or
\* which batch (reference, SKU, ETA) stands at which position of a list, so
\* every reachable state has the lists of construction with only the
\* quantities changed.
C17_ShapeIsKept == [][Shape(batches') = Shape(batches)]_vars

\* both orders were allocated to a SKU with two batches without ETA; the
\* first batch was drawn from and the two batches are still in the order
\* construction gave them (the later supplied one first)
C17_Witness ==
    /\ DOMAIN allocated_orders = OrderRefs
    /\ \A ref \in OrderRefs : allocated_orders[ref].lines # <<>>
    /\ \E sku \in DOMAIN batches :
          /\ Len(batches[sku]) = 2
          /\ batches[sku][1].eta = None
          /\ batches[sku][2].eta = None
          /\ batches[sku][1].quantity <= 0
          /\ batches[sku][1].reference = 2
          /\ batches[sku][2].reference = 1

\* C18: construction keeps the batches of one SKU that have no ETA in the
\* order in which they were supplied (a batch's reference is its position in
\* the supplied list), so that the first supplied batch without ETA is first
\* in the SKU's list and is the batch a successful allocate of one line
\* draws from.
C18_Original ==
    \A sku \in DOMAIN batches :
        LET bs == batches[sku]
            InStock == {k \in 1..Len(bs) : bs[k].eta = None}
        IN  /\ \A i, j \in InStock :
                  i < j => bs[i].reference < bs[j].reference
            /\ InStock # {}
               => /\ \A k \in InStock : bs[1].reference <= bs[k].reference
                  /\ \A order \in Order :
                        (/\ NotYetAllocated(order)
                         /\ Len(order.lines) = 1
                         /\ order.lines[1].sku = sku
                         /\ allocate(Self, order).result.kind = "list")
                        => \E k \in InStock :
                              /\ \A l \in InStock :
                                    bs[k].reference <= bs[l].reference
                              /\ allocate(Self, order).self.batches[sku][k]
                                    .quantity
                                 = bs[k].quantity - order.lines[1].quantity

\* the threads whose allocate call has returned its list
Passed == {t \in Threads : /\ threads[t].pc = "done"
                             /\ threads[t].result.kind = "list"}

\* the line of the order thread t allocates
LineOf(t) == threads[t].order.lines[1]

RECURSIVE SumAsked(_)
\* what the lines of the threads in S ask together
SumAsked(S) ==
    IF S = {} THEN 0
    ELSE LET t == CHOOSE u \in S : TRUE
         IN  LineOf(t).quantity + SumAsked(S \ {t})

\* C19: allocate is not atomic.  Concurrent calls without a lock interleave
\* between the guard and the recording of the order and between the check
\* and the store of the updated list (the witness: two calls with the same
\* not yet allocated order both pass the guard and its quantity is taken
\* twice, and calls with different orders for the SKU all pass the check
\* and take more than the SKU holds).  Whatever the interleaving, once all
\* calls have ended: the record holds the references of the calls that
\* returned a list; a call returned None only if another call with its
\* reference returned a list; a call that returned a list asked no more than
\* the SKU held at construction; and from the first batch of each SKU was
\* taken what some of the calls that returned a list for it ask together,
\* at least one of them and possibly all (the same order twice, or more than
\* the SKU holds), while later batches are untouched.
C19_RaceOutcomes ==
    (\A t \in Threads : threads[t].pc = "done")
    => /\ DOMAIN allocated_orders =
             {threads[t].order.reference : t \in Passed}
       /\ \A t \in Threads :
             threads[t].result.kind = "None"
             => \E u \in Passed \ {t} :
                   threads[u].order.reference = threads[t].order.reference
       /\ \A t \in Passed :
             LineOf(t).quantity <= MaxQty * Len(batches[LineOf(t).sku])
       /\ \A sku \in DOMAIN batches :
             LET Askers == {t \in Passed : LineOf(t).sku = sku}
                 taken == MaxQty - batches[sku][1].quantity
             IN  /\ Askers = {} => taken = 0
                 /\ Askers # {}
                    => \E S \in (SUBSET Askers) \ {{}} :
                          taken = SumAsked(S)
                 /\ \A k \in 2..Len(batches[sku]) :
                       batches[sku][k].quantity = MaxQty

\* two threads allocated the same order and a third a different order for
\* the same SKU, which has one batch; all three returned a list, the first
\* order's quantity was taken twice and the two orders together ask more
\* than the SKU held
C19_Witness ==
    \E t, u, v \in Threads :
        /\ t # u
        /\ {t, u, v} \subseteq Passed
        /\ threads[t].order = threads[u].order
        /\ threads[v].order.reference # threads[t].order.reference
        /\ LineOf(v).sku = LineOf(t).sku
        /\ Len(batches[LineOf(t).sku]) = 1
        /\ LineOf(t).quantity + LineOf(v).quantity > MaxQty
        /\ batches[LineOf(t).sku][1].quantity =
              MaxQty - (2 * LineOf(t).quantity + LineOf(v).quantity)

====
